---- MODULE Spec2Model ----
(***************************************************************************)
(* silverlining: a book file (txt, fb2, epub) is parsed into a flat        *)
(* sequence of TextSegment records; the application keeps the parsed       *)
(* sequence, a reading position and a playing flag.                        *)
(*                                                                         *)
(* A string is a sequence of characters, each character a one-element      *)
(* token.  A TextSegment is a record whose optional fields are present     *)
(* only when the code sets them.                                           *)
(***************************************************************************)
EXTENDS Integers, Sequences, FiniteSets, TLC

VARIABLES
    file,         \* the File handed to parseBook: its name and its content
    pc,           \* where the parseBook call stands (its await points)
    segments,     \* the parser's local `segments` array
    error,        \* the message of the Error thrown, "" when none
    reads,        \* the content reads made so far: file.text(), zip.file(path)
    opfPath,      \* parseEpub: the package document's path
    spineItems,   \* parseEpub: the idref attributes of the itemref elements
    manifestMap,  \* parseEpub: id -> resolved path
    i,            \* parseEpub: the spine loop's index (1-based)
    appSegments,  \* App state `segments`
    position,     \* App state `position`
    isPlaying,    \* App state `isPlaying`
    isLoading,    \* App state `isLoading`
    loadStatus,   \* App state `loadStatus`
    bookName,     \* App state `bookName`
    elements,     \* ScrollingText: the spans renderText returned at the last render
    lastTimeRef,  \* ScrollingText: lastTimeRef.current
    animationRef  \* ScrollingText: whether a requested animation frame is due

vars == <<file, pc, segments, error, reads, opfPath, spineItems, manifestMap, i,
          appSegments, position, isPlaying, isLoading, loadStatus, bookName,
          elements, lastTimeRef, animationRef>>

parseVars == <<file, pc, segments, error, reads, opfPath, spineItems, manifestMap, i>>

appVars == <<appSegments, position, isPlaying, isLoading, loadStatus, bookName,
            elements, lastTimeRef, animationRef>>

----------------------------------------------------------------------------
(* Characters and strings *)

NBSP == "nbsp"
SP == " "
LF == "\n"
CR == "\r"

\* what String.prototype.trim strips and the regex class \s matches
WhiteSpace == {SP, LF, CR, NBSP}

\* the regex class [.!?]
Punctuation == {".", "!", "?"}

Repeat(c, n) == [k \in 1..n |-> c]

SentenceBreakLen == 10
ParagraphBreakLen == 25
HeadingGapLen == 30

SENTENCE_BREAK == Repeat(NBSP, SentenceBreakLen)
PARAGRAPH_BREAK == Repeat(NBSP, ParagraphBreakLen)
HEADING_GAP == Repeat(NBSP, HeadingGapLen)

LowerOf == [c \in {"T", "X", "F", "B", "E", "P", "U"} |->
              CASE c = "T" -> "t" [] c = "X" -> "x" [] c = "F" -> "f" [] c = "B" -> "b"
                [] c = "E" -> "e" [] c = "P" -> "p" [] c = "U" -> "u"]

\* String.prototype.toLowerCase, one character
LowerChar(c) == IF c \in DOMAIN LowerOf THEN LowerOf[c] ELSE c

ToLowerCase(s) == [k \in 1..Len(s) |-> LowerChar(s[k])]

\* String.prototype.trim
Trim(s) ==
    LET keep == {k \in 1..Len(s) : s[k] \notin WhiteSpace}
    IN  IF keep = {} THEN <<>>
        ELSE LET lo == CHOOSE k \in keep : \A m \in keep : k <= m
                 hi == CHOOSE k \in keep : \A m \in keep : k >= m
             IN  SubSeq(s, lo, hi)

\* text.split(/\r?\n/): the lines between the separators LF and CR LF
RECURSIVE SplitFrom(_, _, _, _)
SplitFrom(text, k, cur, out) ==
    IF k > Len(text) THEN Append(out, cur)
    ELSE IF text[k] = CR /\ k + 1 <= Len(text) /\ text[k + 1] = LF
         THEN SplitFrom(text, k + 2, <<>>, Append(out, cur))
    ELSE IF text[k] = LF
         THEN SplitFrom(text, k + 1, <<>>, Append(out, cur))
    ELSE SplitFrom(text, k + 1, Append(cur, text[k]), out)

SplitLines(text) == SplitFrom(text, 1, <<>>, <<>>)

\* RunEnd as /([.!?])(\s)/ would have it: one whitespace character, not the run
RunEndOneChar(text, k) == k + 1

\* the end of the whitespace run that starts at k: the first index past it
RECURSIVE RunEnd(_, _)
RunEnd(text, k) ==
    IF k <= Len(text) /\ text[k] \in WhiteSpace THEN RunEnd(text, k + 1) ELSE k

\* text.replace(/([.!?])(\s+)/g, '$1' + SENTENCE_BREAK), scanned left to right
RECURSIVE ReplaceFrom(_, _, _)
ReplaceFrom(text, k, out) ==
    IF k > Len(text) THEN out
    ELSE IF text[k] \in Punctuation /\ k + 1 <= Len(text) /\ text[k + 1] \in WhiteSpace
         THEN ReplaceFrom(text, RunEnd(text, k + 1), out \o <<text[k]>> \o SENTENCE_BREAK)
    ELSE ReplaceFrom(text, k + 1, Append(out, text[k]))

addSentenceBreaks(text) == ReplaceFrom(text, 1, <<>>)

----------------------------------------------------------------------------
(* Format detection *)

Dot == "."
ExtTxt == <<"t", "x", "t">>
ExtFb2 == <<"f", "b", "2">>
ExtEpub == <<"e", "p", "u", "b">>

\* filename.split('.').pop(): the part after the last '.', the whole name when
\* it holds no '.'
LastPart(filename) ==
    LET dots == {k \in 1..Len(filename) : filename[k] = Dot}
    IN  IF dots = {} THEN filename
        ELSE LET last == CHOOSE k \in dots : \A m \in dots : k >= m
             IN  SubSeq(filename, last + 1, Len(filename))

\* getFileFormat: the format tag, or "" when it throws
getFileFormat(filename) ==
    LET ext == ToLowerCase(LastPart(filename))
    IN  IF ext = ExtTxt THEN "txt"
        ELSE IF ext = ExtFb2 THEN "fb2"
        ELSE IF ext = ExtEpub THEN "epub"
        ELSE ""

----------------------------------------------------------------------------
(* parseTxt *)

\* BreakSegment with a style flag
BreakSegmentBold(text) == [text |-> text, bold |-> TRUE, isParagraphBreak |-> TRUE]

BreakSegment(text) == [text |-> text, isParagraphBreak |-> TRUE]

\* TxtLoop without the look at the following line: a break for every blank
\* line but the last
RECURSIVE TxtLoopEveryBlank(_, _, _)
TxtLoopEveryBlank(lines, k, segs) ==
    IF k > Len(lines) THEN segs
    ELSE LET line == Trim(lines[k])
         IN  IF line = <<>>
             THEN IF k < Len(lines)
                  THEN TxtLoopEveryBlank(lines, k + 1,
                                         Append(segs, BreakSegment(PARAGRAPH_BREAK)))
                  ELSE TxtLoopEveryBlank(lines, k + 1, segs)
             ELSE TxtLoopEveryBlank(lines, k + 1,
                      Append(segs, [text |-> addSentenceBreaks(line) \o SENTENCE_BREAK]))

\* the loop of parseTxt from line k on
RECURSIVE TxtLoop(_, _, _)
TxtLoop(lines, k, segs) ==
    IF k > Len(lines) THEN segs
    ELSE LET line == Trim(lines[k])
         IN  IF line = <<>>
             THEN IF k < Len(lines) /\ Trim(lines[k + 1]) # <<>>
                  THEN TxtLoop(lines, k + 1, Append(segs, BreakSegment(PARAGRAPH_BREAK)))
                  ELSE TxtLoop(lines, k + 1, segs)
             ELSE TxtLoop(lines, k + 1,
                          Append(segs, [text |-> addSentenceBreaks(line) \o SENTENCE_BREAK]))

parseTxtSegments(text) == TxtLoop(SplitLines(text), 1, <<>>)

----------------------------------------------------------------------------
(* The markup walkers.  A parsed document is [parent, node]: node[k] is the  *)
(* k-th node in document order, as [nodeType, tagName, nodeValue], and       *)
(* parent[k] its parent (0 for the document element).                        *)

TagBody == <<"b", "o", "d", "y">>
TagTitle == <<"t", "i", "t", "l", "e">>
TagSubtitle == <<"s", "u", "b", "t", "i", "t", "l", "e">>
TagP == <<"p">>
TagEmptyLine == <<"e", "m", "p", "t", "y", "-", "l", "i", "n", "e">>
TagStrong == <<"s", "t", "r", "o", "n", "g">>
TagB == <<"b">>
TagEmphasis == <<"e", "m", "p", "h", "a", "s", "i", "s">>
TagEm == <<"e", "m">>
TagI == <<"i">>
TagU == <<"u">>

\* childNodes, last child first
childNodesReversed(doc, n) ==
    LET children == SelectSeq([k \in 1..Len(doc.parent) |-> k], LAMBDA k : doc.parent[k] = n)
    IN  [k \in 1..Len(children) |-> children[Len(children) + 1 - k]]

\* node.childNodes, in document order
childNodes(doc, n) ==
    SelectSeq([k \in 1..Len(doc.parent) |-> k], LAMBDA k : doc.parent[k] = n)

\* doc.getElementsByTagName('body')[0]: the first body element, 0 when none
getBody(doc) ==
    LET bodies == {k \in 1..Len(doc.node) :
                      doc.node[k].nodeType = 1 /\ doc.node[k].tagName = TagBody}
    IN  IF bodies = {} THEN 0 ELSE CHOOSE k \in bodies : \A m \in bodies : k <= m

\* TextNodeSegments with isHeading left out of the segment
TextNodeSegmentsNoHeading(nodeValue, isHeading, inheritBold, inheritItalic, inheritUnderline) ==
    LET text == Trim(nodeValue)
    IN  IF text = <<>> THEN <<>>
        ELSE << [text |-> addSentenceBreaks(text) \o <<SP>>,
                 bold |-> (isHeading \/ inheritBold),
                 italic |-> inheritItalic,
                 underline |-> inheritUnderline] >>

\* TextNodeSegments ending the text as parseTxt ends a line
TextNodeSegmentsAsLine(nodeValue, isHeading, inheritBold, inheritItalic, inheritUnderline) ==
    LET text == Trim(nodeValue)
    IN  IF text = <<>> THEN <<>>
        ELSE << [text |-> addSentenceBreaks(text) \o SENTENCE_BREAK \o <<SP>>,
                 bold |-> (isHeading \/ inheritBold),
                 italic |-> inheritItalic,
                 underline |-> inheritUnderline,
                 isHeading |-> isHeading] >>

\* the segment pushed for a text node, <<>> when its trimmed value is empty
TextNodeSegments(nodeValue, isHeading, inheritBold, inheritItalic, inheritUnderline) ==
    LET text == Trim(nodeValue)
    IN  IF text = <<>> THEN <<>>
        ELSE << [text |-> addSentenceBreaks(text) \o <<SP>>,
                 bold |-> (isHeading \/ inheritBold),
                 italic |-> inheritItalic,
                 underline |-> inheritUnderline,
                 isHeading |-> isHeading] >>

\* tagName === 'title' || tagName === 'subtitle' || tagName?.startsWith('h')
IsFb2HeadingTag(tagName) ==
    \/ tagName = TagTitle
    \/ tagName = TagSubtitle
    \/ (Len(tagName) >= 1 /\ tagName[1] = "h")

\* tagName?.match(/^h[1-6]$/)
IsEpubHeadingTag(tagName) ==
    /\ Len(tagName) = 2
    /\ tagName[1] = "h"
    /\ tagName[2] \in {"1", "2", "3", "4", "5", "6"}

\* IsBoldTag without the b tag
IsBoldTagStrongOnly(tagName) == tagName = TagStrong

IsBoldTag(tagName) == tagName = TagStrong \/ tagName = TagB

IsFb2ItalicTag(tagName) == tagName = TagEmphasis \/ tagName = TagI \/ tagName = TagEm

IsEpubItalicTag(tagName) == tagName = TagEm \/ tagName = TagI

IsUnderlineTag(tagName) == tagName = TagU

RECURSIVE processFb2NodeWithContext(_, _, _, _, _, _, _)
RECURSIVE Fb2ChildLoop(_, _, _, _, _, _, _, _)

\* the loop of processFb2Children from child k on
Fb2ChildLoop(doc, children, k, segs, isHeading, inheritBold, inheritItalic, inheritUnderline) ==
    IF k > Len(children) THEN segs
    ELSE LET child == doc.node[children[k]]
             tagName == ToLowerCase(child.tagName)
             isBold == inheritBold \/ IsBoldTag(tagName)
             isItalic == inheritItalic \/ IsFb2ItalicTag(tagName)
             isUnderline == inheritUnderline \/ IsUnderlineTag(tagName)
             next ==
                 IF child.nodeType = 3
                 THEN segs \o TextNodeSegments(child.nodeValue, isHeading, inheritBold,
                                               inheritItalic, inheritUnderline)
                 ELSE IF child.nodeType = 1
                 THEN processFb2NodeWithContext(doc, children[k], segs, isHeading,
                                                isBold, isItalic, isUnderline)
                 ELSE segs
         IN  Fb2ChildLoop(doc, children, k + 1, next, isHeading, inheritBold,
                          inheritItalic, inheritUnderline)

processFb2Children(doc, n, segs, isHeading, inheritBold, inheritItalic, inheritUnderline) ==
    Fb2ChildLoop(doc, childNodes(doc, n), 1, segs, isHeading, inheritBold,
                 inheritItalic, inheritUnderline)

processFb2NodeWithContext(doc, n, segs, isHeading, inheritBold, inheritItalic, inheritUnderline) ==
    LET node == doc.node[n]
        tagName == ToLowerCase(node.tagName)
    IN  IF node.nodeType = 3
        THEN segs \o TextNodeSegments(node.nodeValue, isHeading, inheritBold,
                                      inheritItalic, inheritUnderline)
        ELSE IF node.nodeType # 1 THEN segs
        ELSE IF IsFb2HeadingTag(tagName)
        THEN processFb2Children(doc, n, Append(segs, BreakSegment(HEADING_GAP)),
                                TRUE, TRUE, inheritItalic, inheritUnderline)
             \o <<BreakSegment(HEADING_GAP), BreakSegment(PARAGRAPH_BREAK)>>
        ELSE IF tagName = TagEmptyLine
        THEN Append(segs, BreakSegment(PARAGRAPH_BREAK))
        ELSE IF tagName = TagP
        THEN Append(processFb2Children(doc, n, segs, isHeading, inheritBold,
                                       inheritItalic, inheritUnderline),
                    BreakSegment(PARAGRAPH_BREAK))
        ELSE processFb2Children(doc, n, segs, isHeading,
                                inheritBold \/ IsBoldTag(tagName),
                                inheritItalic \/ IsFb2ItalicTag(tagName),
                                inheritUnderline \/ IsUnderlineTag(tagName))

processFb2Node(doc, n, segs) ==
    processFb2NodeWithContext(doc, n, segs, FALSE, FALSE, FALSE, FALSE)

\* parseFb2 after file.text() and the XML parse
parseFb2Segments(doc) ==
    LET body == getBody(doc)
    IN  IF body = 0 THEN <<>> ELSE processFb2Node(doc, body, <<>>)

RECURSIVE processEpubNodeWithContext(_, _, _, _, _, _, _)
RECURSIVE EpubChildLoop(_, _, _, _, _, _, _, _)

\* the loop of processEpubChildren from child k on
EpubChildLoop(doc, children, k, segs, isHeading, inheritBold, inheritItalic, inheritUnderline) ==
    IF k > Len(children) THEN segs
    ELSE LET child == doc.node[children[k]]
             tagName == ToLowerCase(child.tagName)
             isBold == inheritBold \/ IsBoldTag(tagName)
             isItalic == inheritItalic \/ IsEpubItalicTag(tagName)
             isUnderline == inheritUnderline \/ IsUnderlineTag(tagName)
             next ==
                 IF child.nodeType = 3
                 THEN segs \o TextNodeSegments(child.nodeValue, isHeading, inheritBold,
                                               inheritItalic, inheritUnderline)
                 ELSE IF child.nodeType = 1
                 THEN processEpubNodeWithContext(doc, children[k], segs, isHeading,
                                                 isBold, isItalic, isUnderline)
                 ELSE segs
         IN  EpubChildLoop(doc, children, k + 1, next, isHeading, inheritBold,
                           inheritItalic, inheritUnderline)

processEpubChildren(doc, n, segs, isHeading, inheritBold, inheritItalic, inheritUnderline) ==
    EpubChildLoop(doc, childNodes(doc, n), 1, segs, isHeading, inheritBold,
                  inheritItalic, inheritUnderline)

processEpubNodeWithContext(doc, n, segs, isHeading, inheritBold, inheritItalic, inheritUnderline) ==
    LET node == doc.node[n]
        tagName == ToLowerCase(node.tagName)
    IN  IF node.nodeType = 3
        THEN segs \o TextNodeSegments(node.nodeValue, isHeading, inheritBold,
                                      inheritItalic, inheritUnderline)
        ELSE IF node.nodeType # 1 THEN segs
        ELSE IF IsEpubHeadingTag(tagName)
        THEN processEpubChildren(doc, n, Append(segs, BreakSegment(HEADING_GAP)),
                                 TRUE, TRUE, inheritItalic, inheritUnderline)
             \o <<BreakSegment(HEADING_GAP), BreakSegment(PARAGRAPH_BREAK)>>
        ELSE IF tagName = TagP
        THEN Append(processEpubChildren(doc, n, segs, isHeading, inheritBold,
                                        inheritItalic, inheritUnderline),
                    BreakSegment(PARAGRAPH_BREAK))
        ELSE processEpubChildren(doc, n, segs, isHeading,
                                 inheritBold \/ IsBoldTag(tagName),
                                 inheritItalic \/ IsEpubItalicTag(tagName),
                                 inheritUnderline \/ IsUnderlineTag(tagName))

processEpubNode(doc, n, segs) ==
    processEpubNodeWithContext(doc, n, segs, FALSE, FALSE, FALSE, FALSE)

----------------------------------------------------------------------------
(* The EPUB archive.  A path is its sequence of '/'-separated components.   *)
(* zip.entries maps the paths of the archive to what each entry yields when  *)
(* read as a string and parsed: whether the string is empty, the full-path   *)
(* attributes of its rootfile elements, the id and href attributes of its    *)
(* item elements, the idref attributes of its itemref elements, and its      *)
(* node tree.  An absent (or empty) attribute is the empty string.           *)

ContainerPath == <<"META-INF", "container.xml">>

ErrUnknownFormat == "Unknown file format"
ErrNotZip == "JSZip: not a zip file"
ErrMissingContainer == "Invalid EPUB: missing container.xml"
ErrMissingOpfPath == "Invalid EPUB: missing OPF path"
ErrMissingOpfFile == "Invalid EPUB: missing OPF file"

\* await zip.file(path)?.async('string') is falsy: no such entry, or an empty one
Unreadable(zip, path) == path \notin DOMAIN zip.entries \/ zip.entries[path].empty

ArchiveRead(path) == [op |-> "zip.file", path |-> path]

\* opfPath.substring(0, opfPath.lastIndexOf('/') + 1)
BasePath(path) == SubSeq(path, 1, Len(path) - 1)

\* the loop that fills manifestMap, from item k on
RECURSIVE ManifestLoop(_, _, _, _)
ManifestLoop(items, k, path, map) ==
    IF k > Len(items) THEN map
    ELSE LET id == items[k].id
             href == items[k].href
         IN  IF id # "" /\ href # <<>>
             THEN ManifestLoop(items, k + 1, path,
                      [x \in DOMAIN map \cup {id} |->
                          IF x = id THEN BasePath(path) \o href ELSE map[x]])
             ELSE ManifestLoop(items, k + 1, path, map)

EmptyMap == [x \in {} |-> <<>>]

----------------------------------------------------------------------------
(* parseBook and the three parsers, one action per await point *)

Throw(message) ==
    /\ pc' = "failed"
    /\ error' = message

\* parseBook: getFileFormat and the switch
ParseBook ==
    /\ pc = "parseBook"
    /\ LET format == getFileFormat(file.name)
       IN  IF format = ""
           THEN Throw(ErrUnknownFormat)
           ELSE /\ pc' = (CASE format = "txt" -> "parseTxt"
                            [] format = "fb2" -> "parseFb2"
                            [] format = "epub" -> "parseEpub")
                /\ error' = error
    /\ UNCHANGED <<file, segments, reads, opfPath, spineItems, manifestMap, i>>
    /\ UNCHANGED appVars

FileRead(op) == [op |-> op, path |-> <<>>]

ParseTxt ==
    /\ pc = "parseTxt"
    /\ reads' = Append(reads, FileRead("file.text"))
    /\ segments' = parseTxtSegments(file.text)
    /\ pc' = "done"
    /\ UNCHANGED <<file, error, opfPath, spineItems, manifestMap, i>>
    /\ UNCHANGED appVars

ParseFb2 ==
    /\ pc = "parseFb2"
    /\ reads' = Append(reads, FileRead("file.text"))
    /\ segments' = parseFb2Segments(file.doc)
    /\ pc' = "done"
    /\ UNCHANGED <<file, error, opfPath, spineItems, manifestMap, i>>
    /\ UNCHANGED appVars

\* parseEpub: file.arrayBuffer() and JSZip.loadAsync
EpubLoad ==
    /\ pc = "parseEpub"
    /\ reads' = Append(reads, FileRead("file.arrayBuffer"))
    /\ IF file.zip.isZip
       THEN pc' = "container" /\ error' = error
       ELSE Throw(ErrNotZip)
    /\ UNCHANGED <<file, segments, opfPath, spineItems, manifestMap, i>>
    /\ UNCHANGED appVars

\* EpubContainer that goes on without a container descriptor, with the usual
\* package path
EpubContainerFallback ==
    /\ pc = "container"
    /\ reads' = Append(reads, ArchiveRead(ContainerPath))
    /\ IF Unreadable(file.zip, ContainerPath)
       THEN pc' = "opf" /\ error' = error /\ opfPath' = <<"OEBPS", "content.opf">>
       ELSE LET rootfile == file.zip.entries[ContainerPath].rootfile
                path == IF Len(rootfile) = 0 THEN <<>> ELSE rootfile[1]
            IN  IF path = <<>>
                THEN Throw(ErrMissingOpfPath) /\ opfPath' = opfPath
                ELSE pc' = "opf" /\ error' = error /\ opfPath' = path
    /\ UNCHANGED <<file, segments, spineItems, manifestMap, i>>
    /\ UNCHANGED appVars

\* parseEpub: the container descriptor and the package document's path
EpubContainer ==
    /\ pc = "container"
    /\ reads' = Append(reads, ArchiveRead(ContainerPath))
    /\ IF Unreadable(file.zip, ContainerPath)
       THEN Throw(ErrMissingContainer) /\ opfPath' = opfPath
       ELSE LET rootfile == file.zip.entries[ContainerPath].rootfile
                path == IF Len(rootfile) = 0 THEN <<>> ELSE rootfile[1]
            IN  IF path = <<>>
                THEN Throw(ErrMissingOpfPath) /\ opfPath' = opfPath
                ELSE pc' = "opf" /\ error' = error /\ opfPath' = path
    /\ UNCHANGED <<file, segments, spineItems, manifestMap, i>>
    /\ UNCHANGED appVars

\* parseEpub: the package document, its spine and its manifest
EpubOpf ==
    /\ pc = "opf"
    /\ reads' = Append(reads, ArchiveRead(opfPath))
    /\ IF Unreadable(file.zip, opfPath)
       THEN Throw(ErrMissingOpfFile) /\ UNCHANGED <<spineItems, manifestMap, i>>
       ELSE LET opf == file.zip.entries[opfPath]
            IN  /\ spineItems' = opf.itemref
                /\ manifestMap' = ManifestLoop(opf.item, 1, opfPath, EmptyMap)
                /\ i' = 1
                /\ pc' = "spine"
                /\ error' = error
    /\ UNCHANGED <<file, segments, opfPath>>
    /\ UNCHANGED appVars

\* EpubSpineItem that leaves the loop at an idref it cannot resolve
EpubSpineItemBreak ==
    /\ pc = "spine"
    /\ i <= Len(spineItems)
    /\ LET idref == spineItems[i]
       IN  IF idref = "" \/ idref \notin DOMAIN manifestMap
           THEN i' = Len(spineItems) + 1 /\ UNCHANGED <<segments, reads>>
           ELSE LET href == manifestMap[idref]
                IN  /\ reads' = Append(reads, ArchiveRead(href))
                    /\ i' = i + 1
                    /\ IF Unreadable(file.zip, href)
                       THEN segments' = segments
                       ELSE LET htmlDoc == file.zip.entries[href].doc
                                body == getBody(htmlDoc)
                            IN  segments' = IF body # 0
                                            THEN processEpubNode(htmlDoc, body, segments)
                                            ELSE segments
    /\ UNCHANGED <<file, pc, error, opfPath, spineItems, manifestMap>>
    /\ UNCHANGED appVars

\* parseEpub: one iteration of the spine loop
EpubSpineItem ==
    /\ pc = "spine"
    /\ i <= Len(spineItems)
    /\ LET idref == spineItems[i]
       IN  IF idref = "" \/ idref \notin DOMAIN manifestMap
           THEN UNCHANGED <<segments, reads>>
           ELSE LET href == manifestMap[idref]
                IN  /\ reads' = Append(reads, ArchiveRead(href))
                    /\ IF Unreadable(file.zip, href)
                       THEN segments' = segments
                       ELSE LET htmlDoc == file.zip.entries[href].doc
                                body == getBody(htmlDoc)
                            IN  segments' = IF body # 0
                                            THEN processEpubNode(htmlDoc, body, segments)
                                            ELSE segments
    /\ i' = i + 1
    /\ UNCHANGED <<file, pc, error, opfPath, spineItems, manifestMap>>
    /\ UNCHANGED appVars

\* parseEpub: the spine loop is over, return segments
EpubReturn ==
    /\ pc = "spine"
    /\ i > Len(spineItems)
    /\ pc' = "done"
    /\ UNCHANGED <<file, segments, error, reads, opfPath, spineItems, manifestMap, i>>
    /\ UNCHANGED appVars


----------------------------------------------------------------------------
(* The application: App's state and its handlers *)

\* null; no string holds this token
Null == <<"null">>

RewindStep == 100
ForwardStep == 100

RECURSIVE totalLength(_)
totalLength(segs) ==
    IF segs = <<>> THEN 0 ELSE Len(Head(segs).text) + totalLength(Tail(segs))

Min(a, b) == IF a < b THEN a ELSE b
Max(a, b) == IF a > b THEN a ELSE b

\* file.name.replace(/\.(txt|fb2|epub)$/i, '')
StripExtension(name) ==
    LET Ends(ext) ==
            /\ Len(name) > Len(ext)
            /\ name[Len(name) - Len(ext)] = Dot
            /\ ToLowerCase(SubSeq(name, Len(name) - Len(ext) + 1, Len(name))) = ext
    IN  IF \E ext \in {ExtTxt, ExtFb2, ExtEpub} : Ends(ext)
        THEN LET ext == CHOOSE e \in {ExtTxt, ExtFb2, ExtEpub} : Ends(e)
             IN  SubSeq(name, 1, Len(name) - Len(ext) - 1)
        ELSE name

LoadingStatus(name) == [kind |-> "Loading", name |-> name]
LoadedStatus(name, totalChars) == [kind |-> "Loaded", name |-> name, totalChars |-> totalChars]
ErrorStatus(message) == [kind |-> "Error", message |-> message]

WheelStep == 20

\* if (segment.bold): the field is there and true
FlagOn(segment, flag) == flag \in DOMAIN segment /\ segment[flag]

\* the style renderText gives a span
SpanStyle(segment) ==
    (IF FlagOn(segment, "bold") THEN {"fontWeight: bold"} ELSE {})
        \cup (IF FlagOn(segment, "italic") THEN {"fontStyle: italic"} ELSE {})
        \cup (IF FlagOn(segment, "underline") THEN {"textDecoration: underline"} ELSE {})

\* Substring taking one character more
SubstringInclusive(text, n) == SubSeq(text, 1, Min(Max(n + 1, 0), Len(text)))

\* text.substring(0, n)
Substring(text, n) == SubSeq(text, 1, Min(Max(n, 0), Len(text)))

\* renderText's loop from segment k on, currentPos being the offset of segment k
RECURSIVE RenderLoop(_, _, _, _, _)
RenderLoop(segs, p, k, currentPos, out) ==
    IF k > Len(segs) THEN out
    ELSE LET segment == segs[k]
             segmentEnd == currentPos + Len(segment.text)
         IN  IF segmentEnd <= p
             THEN RenderLoop(segs, p, k + 1, segmentEnd,
                             Append(out, [key |-> currentPos, style |-> SpanStyle(segment),
                                          text |-> segment.text]))
             ELSE IF currentPos < p
             THEN Append(out, [key |-> currentPos, style |-> SpanStyle(segment),
                               text |-> Substring(segment.text, p - currentPos)])
             ELSE out

renderText(segs, p) == RenderLoop(segs, p, 1, 0, <<>>)

\* App renders ScrollingText only when it holds segments
Mounted(segs) == Len(segs) # 0
Rendered(segs, p) == IF Mounted(segs) THEN renderText(segs, p) ELSE <<>>

\* the time stamp of an animation frame
Stamped == <<"currentTime">>

\* ScrollingText's animation effect after a render: it runs again when
\* isPlaying or totalLength changed, and on mount; its cleanup cancels the
\* requested frame
AnimationEffect ==
    IF ~Mounted(appSegments')
    THEN lastTimeRef' = Null /\ animationRef' = FALSE
    ELSE IF ~Mounted(appSegments)
    THEN lastTimeRef' = Null /\ animationRef' = isPlaying'
    ELSE IF isPlaying' = isPlaying /\ totalLength(appSegments') = totalLength(appSegments)
    THEN UNCHANGED <<lastTimeRef, animationRef>>
    ELSE IF isPlaying'
    THEN lastTimeRef' = lastTimeRef /\ animationRef' = TRUE
    ELSE lastTimeRef' = Null /\ animationRef' = FALSE

\* the render that follows a change of App's state
Rerender ==
    /\ elements' = Rendered(appSegments', position')
    /\ AnimationEffect

\* handleFileSelect up to the call of parseBook; the import button is disabled
\* while a load is under way
HandleFileSelect(f) ==
    /\ pc = "idle"
    /\ ~isLoading
    /\ isLoading' = TRUE
    /\ loadStatus' = LoadingStatus(f.name)
    /\ file' = f
    /\ pc' = "parseBook"
    /\ segments' = <<>>
    /\ error' = ""
    /\ reads' = <<>>
    /\ opfPath' = <<>>
    /\ spineItems' = <<>>
    /\ manifestMap' = EmptyMap
    /\ i' = 0
    /\ UNCHANGED <<appSegments, position, isPlaying, bookName>>
    /\ Rerender

\* handleFileSelect: parseBook resolved
LoadResolved ==
    /\ pc = "done"
    /\ isLoading
    /\ appSegments' = segments
    /\ position' = 0
    /\ isPlaying' = FALSE
    /\ bookName' = StripExtension(file.name)
    /\ loadStatus' = LoadedStatus(file.name, totalLength(segments))
    /\ isLoading' = FALSE
    /\ pc' = "idle"
    /\ UNCHANGED <<file, segments, error, reads, opfPath, spineItems, manifestMap, i>>
    /\ Rerender

\* handleFileSelect: parseBook rejected
LoadRejected ==
    /\ pc = "failed"
    /\ isLoading
    /\ loadStatus' = ErrorStatus(error)
    /\ appSegments' = <<>>
    /\ isLoading' = FALSE
    /\ pc' = "idle"
    /\ UNCHANGED <<position, isPlaying, bookName>>
    /\ UNCHANGED <<file, segments, error, reads, opfPath, spineItems, manifestMap, i>>
    /\ Rerender

HandlePlayPause ==
    /\ isPlaying' = ~isPlaying
    /\ UNCHANGED <<appSegments, position, isLoading, loadStatus, bookName>>
    /\ UNCHANGED parseVars
    /\ Rerender

HandleRewind ==
    /\ position' = Max(0, position - RewindStep)
    /\ UNCHANGED <<appSegments, isPlaying, isLoading, loadStatus, bookName>>
    /\ UNCHANGED parseVars
    /\ Rerender

HandleForward ==
    /\ position' = Min(totalLength(appSegments), position + ForwardStep)
    /\ UNCHANGED <<appSegments, isPlaying, isLoading, loadStatus, bookName>>
    /\ UNCHANGED parseVars
    /\ Rerender

\* ScrollingText's handleWheel, attached while the component is mounted
HandleWheel(delta) ==
    /\ Mounted(appSegments)
    /\ UNCHANGED <<appSegments, isPlaying, isLoading, loadStatus, bookName>>
    /\ UNCHANGED parseVars
    /\ IF isPlaying
       THEN UNCHANGED <<position, elements, lastTimeRef, animationRef>>
       ELSE /\ position' = Max(0, Min(totalLength(appSegments), position + delta))
            /\ Rerender

\* ScrollingText's animate, called for a requested frame; the frame advances
\* the text by speed * deltaTime characters, taken here as a whole number
Animate(advance) ==
    /\ animationRef
    /\ IF lastTimeRef = Null
       THEN /\ lastTimeRef' = Stamped
            /\ animationRef' = TRUE
            /\ UNCHANGED <<position, elements>>
       ELSE LET total == totalLength(appSegments)
                pixelOffset == Min(position + advance, total)
                newPosition == Min(pixelOffset, total)
            IN  /\ lastTimeRef' = Stamped
                /\ position' = newPosition
                /\ animationRef' = (pixelOffset < total)
                /\ elements' = Rendered(appSegments, newPosition)
    /\ UNCHANGED <<appSegments, isPlaying, isLoading, loadStatus, bookName>>
    /\ UNCHANGED parseVars

\* before the first render: a span that no render gives
Unrendered == <<[key |-> -1, style |-> {}, text |-> <<>>]>>

\* ScrollingText rendered with the props it was given
RenderText ==
    /\ elements = Unrendered
    /\ elements' = renderText(appSegments, position)
    /\ UNCHANGED <<appSegments, position, isPlaying, isLoading, loadStatus, bookName,
                   lastTimeRef, animationRef>>
    /\ UNCHANGED parseVars
----------------------------------------------------------------------------
(* The files the model parses *)

MaxTextLen == 5
MaxNameParts == 3
MaxNodes == 4
MaxManifest == 2
MaxSpine == 3
MaxAdvance == 2
MaxSegments == 3

Element(tagName) == [nodeType |-> 1, tagName |-> tagName, nodeValue |-> <<>>]
TextNode(nodeValue) == [nodeType |-> 3, tagName |-> <<>>, nodeValue |-> nodeValue]
CommentNode == [nodeType |-> 8, tagName |-> <<>>, nodeValue |-> <<"c">>]

TagH1 == <<"h", "1">>
TagHtml == <<"h", "t", "m", "l">>
TextIntro == <<"I", "n", "t", "r", "o">>
TextHere == <<"T", "e", "x", "t", SP, "h", "e", "r", "e", ".">>
TextBlank == <<SP, NBSP>>

NoBodyDoc == [parent |-> <<0>>, node |-> <<Element(TagHtml)>>]
NotAZip == [isZip |-> FALSE, entries |-> EmptyMap]

File(name, text, doc, zip) == [name |-> name, text |-> text, doc |-> doc, zip |-> zip]

NameTxt == <<"a", ".">> \o ExtTxt
NameFb2 == <<"a", ".">> \o ExtFb2
NameEpub == <<"a", ".">> \o ExtEpub

\* plain texts
TxtChars == {"a", ".", SP, LF, CR, NBSP}
Texts == UNION {[1..n -> TxtChars] : n \in 0..MaxTextLen}
TxtFiles == {File(NameTxt, t, NoBodyDoc, NotAZip) : t \in Texts}

\* file names: up to MaxNameParts pieces, one after the other
NamePieces == {<<"a">>, <<Dot>>, ExtTxt, <<"T", "X", "t">>, ExtFb2, ExtEpub,
               <<"E", "P", "U", "B">>, <<"p", "d", "f">>}
RECURSIVE NamesOf(_)
NamesOf(n) ==
    IF n = 0 THEN {<<>>}
    ELSE LET shorter == NamesOf(n - 1)
         IN  shorter \cup {a \o b : a \in shorter, b \in NamePieces}
Names == NamesOf(MaxNameParts)

\* node trees: a body element and up to MaxNodes - 1 nodes below it, numbered
\* in document order; only an element has children
NodeKinds == {Element(TagTitle), Element(TagH1), Element(TagP), Element(TagEmptyLine),
              Element(TagB), Element(TagI), Element(TagU),
              TextNode(TextHere), TextNode(TextIntro), TextNode(TextBlank), CommentNode}

RECURSIVE AncestorsOrSelf(_, _)
AncestorsOrSelf(parent, k) ==
    IF k = 0 THEN {} ELSE {k} \cup AncestorsOrSelf(parent, parent[k])

\* the shapes: node k + 1 hangs below node k or below one of its ancestors
Shapes ==
    {parent \in UNION {[1..n -> 0..(n - 1)] : n \in 1..MaxNodes} :
        /\ parent[1] = 0
        /\ \A k \in 2..Len(parent) : parent[k] \in AncestorsOrSelf(parent, k - 1)}

TreeDoc(parent, kinds) ==
    [parent |-> parent,
     node |-> [k \in 1..Len(parent) |-> IF k = 1 THEN Element(TagBody) ELSE kinds[k]]]

OnlyElementsHaveChildren(doc) ==
    \A k \in 2..Len(doc.parent) : doc.node[doc.parent[k]].nodeType = 1

\* <body><title>Intro</title><p>Text here.</p></body>
ScenarioDoc ==
    [parent |-> <<0, 1, 2, 1, 4>>,
     node |-> <<Element(TagBody), Element(TagTitle), TextNode(TextIntro),
                Element(TagP), TextNode(TextHere)>>]

Entry(empty, rootfile, item, itemref, doc) ==
    [empty |-> empty, rootfile |-> rootfile, item |-> item, itemref |-> itemref, doc |-> doc]

OpfFile == <<"OEBPS", "content.opf">>
HrefA == <<"a.xhtml">>
HrefB == <<"text", "b.xhtml">>
PathA == <<"OEBPS", "a.xhtml">>
PathB == <<"OEBPS", "text", "b.xhtml">>

ContainerEntry(rootfile) == Entry(FALSE, rootfile, <<>>, <<>>, NoBodyDoc)
OpfEntry(item, itemref) == Entry(FALSE, <<>>, item, itemref, NoBodyDoc)
ContentEntry(doc) == Entry(FALSE, <<>>, <<>>, <<>>, doc)
EmptyEntry == Entry(TRUE, <<>>, <<>>, <<>>, NoBodyDoc)

Item(id, href) == [id |-> id, href |-> href]

\* an archive of the given entries: a set of <<path, entry>>, one per path
Zip(pairs) ==
    [isZip |-> TRUE,
     entries |-> [path \in {pr[1] : pr \in pairs} |->
                     (CHOOSE pr \in pairs : pr[1] = path)[2]]]

\* a book of one content document
OneDocZip(doc) ==
    Zip({<<ContainerPath, ContainerEntry(<<OpfFile>>)>>,
         <<OpfFile, OpfEntry(<<Item("c1", HrefA)>>, <<"c1">>)>>,
         <<PathA, ContentEntry(doc)>>})

Fb2File(doc) == File(NameFb2, <<>>, doc, NotAZip)
EpubFile(zip) == File(NameEpub, <<>>, NoBodyDoc, zip)

\* <body><h1>Intro</h1></body> and <body><p>Text here.</p></body>
DocA ==
    [parent |-> <<0, 1, 2>>,
     node |-> <<Element(TagBody), Element(TagH1), TextNode(TextIntro)>>]
DocB ==
    [parent |-> <<0, 1, 2>>,
     node |-> <<Element(TagBody), Element(TagP), TextNode(TextHere)>>]

SeqsUpTo(S, n) == UNION {[1..k -> S] : k \in 0..n}

ManifestItems == {Item("c1", HrefA), Item("c2", HrefB), Item("c1", HrefB),
                  Item("", HrefA), Item("c2", <<>>)}
SpineIdrefs == {"", "c1", "c2", "zz"}

\* what the archive holds at the container path, at the package path and at
\* the two content paths; {} is an absent entry
ContainerChoices ==
    {{}, {<<ContainerPath, EmptyEntry>>},
     {<<ContainerPath, ContainerEntry(<<>>)>>},
     {<<ContainerPath, ContainerEntry(<< <<>> >>)>>},
     {<<ContainerPath, ContainerEntry(<<OpfFile, ContainerPath>>)>>}}
BrokenOpfChoices == {{}, {<<OpfFile, EmptyEntry>>}}
ContentAChoices ==
    {{}, {<<PathA, EmptyEntry>>}, {<<PathA, ContentEntry(NoBodyDoc)>>},
     {<<PathA, ContentEntry(DocA)>>}}
ContentBChoices == {{}, {<<PathB, ContentEntry(DocB)>>}}

GoodContainer == {<<ContainerPath, ContainerEntry(<<OpfFile>>)>>}

SimpleOpf == {<<OpfFile, OpfEntry(<<Item("c1", HrefA)>>, <<"c1">>)>>}
ContentA == {<<PathA, ContentEntry(DocA)>>}

\* one file of each kind, under every name
SampleText == <<"a", ".", SP, "a", LF, LF, "a">>
NamedFiles == {File(n, SampleText, ScenarioDoc, OneDocZip(DocA)) : n \in Names}

\* parseBook(f) is called
Start(f) ==
    /\ file = f
    /\ pc = "parseBook"
    /\ segments = <<>>
    /\ error = ""
    /\ reads = <<>>
    /\ opfPath = <<>>
    /\ spineItems = <<>>
    /\ manifestMap = EmptyMap
    /\ i = 0
    /\ appSegments = <<>>
    /\ position = 0
    /\ isPlaying = FALSE
    /\ isLoading = FALSE
    /\ loadStatus = Null
    /\ bookName = Null
    /\ elements = <<>>
    /\ lastTimeRef = Null
    /\ animationRef = FALSE

InitTxt == \E f \in TxtFiles : Start(f)
NextTxt == ParseBook \/ ParseTxt
SpecTxt == InitTxt /\ [][NextTxt]_vars

NextEpub == ParseBook \/ EpubLoad \/ EpubContainer \/ EpubOpf \/ EpubSpineItem \/ EpubReturn

\* every tree, as an fb2 file and as the one content document of an epub file
InitWalk ==
    \/ \E parent \in Shapes : \E kinds \in [2..Len(parent) -> NodeKinds] :
         LET doc == TreeDoc(parent, kinds)
         IN  /\ OnlyElementsHaveChildren(doc)
             /\ \E f \in {Fb2File(doc), EpubFile(OneDocZip(doc))} : Start(f)
    \/ \E doc \in {ScenarioDoc, NoBodyDoc} :
         \E f \in {Fb2File(doc), EpubFile(OneDocZip(doc))} : Start(f)
NextWalk == NextEpub \/ ParseFb2
SpecWalk == InitWalk /\ [][NextWalk]_vars

\* the archives: not a zip; a container and a package document that may be
\* missing or broken; a good container with every manifest and spine
InitEpub ==
    \/ Start(EpubFile(NotAZip))
    \/ \E c \in ContainerChoices \cup {GoodContainer} :
         \E o \in BrokenOpfChoices \cup {SimpleOpf} :
           \E a \in {{}, ContentA} : Start(EpubFile(Zip(c \cup o \cup a)))
    \/ \E m \in SeqsUpTo(ManifestItems, MaxManifest) :
         \E s \in SeqsUpTo(SpineIdrefs, MaxSpine) :
           \E a \in ContentAChoices : \E b \in ContentBChoices :
             Start(EpubFile(Zip(GoodContainer \cup {<<OpfFile, OpfEntry(m, s)>>}
                                  \cup a \cup b)))
SpecEpub == InitEpub /\ [][NextEpub]_vars

InitNamed == \E f \in NamedFiles : Start(f)
InitParse == InitNamed \/ InitTxt \/ InitWalk \/ InitEpub
NextParse == NextEpub \/ ParseFb2 \/ ParseTxt
SpecParse == InitParse /\ [][NextParse]_vars

\* the application: no file chosen yet, then files chosen one after the other
NamePdf == <<"a", Dot, "p", "d", "f">>
NoFile == File(Null, <<>>, NoBodyDoc, NotAZip)
AppFiles ==
    {File(NameTxt, SampleText, NoBodyDoc, NotAZip),
     File(NameTxt, <<>>, NoBodyDoc, NotAZip),
     File(NamePdf, SampleText, NoBodyDoc, NotAZip),
     Fb2File(ScenarioDoc),
     EpubFile(OneDocZip(DocA)),
     EpubFile(NotAZip),
     EpubFile(Zip(SimpleOpf \cup ContentA))}

Init ==
    /\ file = NoFile
    /\ pc = "idle"
    /\ segments = <<>>
    /\ error = ""
    /\ reads = <<>>
    /\ opfPath = <<>>
    /\ spineItems = <<>>
    /\ manifestMap = EmptyMap
    /\ i = 0
    /\ appSegments = <<>>
    /\ position = 0
    /\ isPlaying = FALSE
    /\ isLoading = FALSE
    /\ loadStatus = Null
    /\ bookName = Null
    /\ elements = <<>>
    /\ lastTimeRef = Null
    /\ animationRef = FALSE

Next ==
    \/ \E f \in AppFiles : HandleFileSelect(f)
    \/ NextParse
    \/ LoadResolved
    \/ LoadRejected
    \/ HandlePlayPause
    \/ HandleRewind
    \/ HandleForward
    \/ \E delta \in {WheelStep, -WheelStep} : HandleWheel(delta)
    \/ \E advance \in 1..MaxAdvance : Animate(advance)

Spec == Init /\ [][Next]_vars

\* ScrollingText given a segment sequence and a position within it
SegmentKinds ==
    {[text |-> <<>>],
     [text |-> <<"a">>],
     [text |-> <<"a", ".", SP>>, bold |-> TRUE, italic |-> FALSE,
      underline |-> FALSE, isHeading |-> TRUE],
     [text |-> <<"b", "c">>, bold |-> FALSE, italic |-> TRUE,
      underline |-> TRUE, isHeading |-> FALSE],
     [text |-> <<"d">> \o SENTENCE_BREAK],
     BreakSegment(PARAGRAPH_BREAK)}
SegmentSequences == SeqsUpTo(SegmentKinds, MaxSegments)

InitRender ==
    \E segs \in SegmentSequences : \E p \in 0..totalLength(segs) :
        /\ file = NoFile
        /\ pc = "idle"
        /\ segments = <<>>
        /\ error = ""
        /\ reads = <<>>
        /\ opfPath = <<>>
        /\ spineItems = <<>>
        /\ manifestMap = EmptyMap
        /\ i = 0
        /\ appSegments = segs
        /\ position = p
        /\ isPlaying = FALSE
        /\ isLoading = FALSE
        /\ loadStatus = Null
        /\ bookName = Null
        /\ elements = Unrendered
        /\ lastTimeRef = Null
        /\ animationRef = FALSE
NextRender == RenderText
SpecRender == InitRender /\ [][NextRender]_vars

----------------------------------------------------------------------------
(* Properties of the parsers *)

\* a flag of a segment is set when the field is there and true
FlagSet(seg, flag) == flag \in DOMAIN seg /\ seg[flag]

IsBreak(seg) == FlagSet(seg, "isParagraphBreak")

NoStyleFlags(seg) ==
    \A flag \in {"bold", "italic", "underline", "isHeading"} : ~FlagSet(seg, flag)

\* the k-th smallest member of a set of numbers
NthOf(S, k) == CHOOSE x \in S : Cardinality({y \in S : y < x}) = k - 1

NonWhiteSpace(s) == SelectSeq(s, LAMBDA c : c \notin WhiteSpace)

RECURSIVE ConcatText(_)
ConcatText(segs) ==
    IF segs = <<>> THEN <<>> ELSE Head(segs).text \o ConcatText(Tail(segs))

\* the lines of the text file, the non-blank ones, and where the segments of
\* the non-blank lines stand in the output
TxtLines == SplitLines(file.text)
NonBlankLines == {k \in 1..Len(TxtLines) : Trim(TxtLines[k]) # <<>>}
TextSegmentAt == {j \in 1..Len(segments) : ~IsBreak(segments[j])}
TxtDone == pc = "done" /\ file.name = NameTxt

\* the number of break segments between the segments of the r-th and the
\* (r+1)-th non-blank line
BreaksAfterLine(r) == NthOf(TextSegmentAt, r + 1) - NthOf(TextSegmentAt, r) - 1

\* the number of blank lines between the r-th and the (r+1)-th non-blank line
BlanksAfterLine(r) == NthOf(NonBlankLines, r + 1) - NthOf(NonBlankLines, r) - 1

BreaksBeforeFirstLine == NthOf(TextSegmentAt, 1) - 1
BreaksAfterLastLine == Len(segments) - NthOf(TextSegmentAt, Cardinality(TextSegmentAt))
LeadingBlankLines == NthOf(NonBlankLines, 1) - 1

InnerBlankRuns ==
    \A r \in 1..(Cardinality(NonBlankLines) - 1) :
        /\ BlanksAfterLine(r) = 1 => BreaksAfterLine(r) = 1
        /\ BlanksAfterLine(r) >= 2 => BreaksAfterLine(r) <= 1

\* C1, as stated: one blank line between two non-blank lines gives exactly one
\* paragraph-break segment, a run of two or more gives at most one, and the
\* blank lines before the first and after the last non-blank line give none.
C1_AsStated ==
    TxtDone =>
        /\ Cardinality(TextSegmentAt) = Cardinality(NonBlankLines)
        /\ IF NonBlankLines = {} THEN segments = <<>>
           ELSE /\ InnerBlankRuns
                /\ BreaksBeforeFirstLine = 0
                /\ BreaksAfterLastLine = 0

\* C1, amended: as stated for the blank lines between and after the non-blank
\* lines; the blank lines before the first non-blank line give exactly one
\* paragraph-break segment (none when the input starts with a non-blank line).
C1_BlankRuns ==
    TxtDone =>
        /\ Cardinality(TextSegmentAt) = Cardinality(NonBlankLines)
        /\ IF NonBlankLines = {} THEN segments = <<>>
           ELSE /\ InnerBlankRuns
                /\ BreaksBeforeFirstLine = (IF LeadingBlankLines > 0 THEN 1 ELSE 0)
                /\ BreaksAfterLastLine = 0

\* a text that starts with a blank line and has one blank line between two
\* non-blank lines, parsed
C1_Witness ==
    /\ TxtDone
    /\ Cardinality(NonBlankLines) >= 2
    /\ LeadingBlankLines > 0
    /\ BlanksAfterLine(1) = 1
    /\ IsBreak(segments[1])

\* the tokens of a string: each whitespace run is one token, each other
\* character is one token
TokenStarts(s) ==
    {k \in 1..Len(s) : k = 1 \/ s[k] \notin WhiteSpace \/ s[k - 1] \notin WhiteSpace}
Token(s, r) ==
    LET starts == TokenStarts(s)
        from == NthOf(starts, r)
        to == IF r = Cardinality(starts) THEN Len(s) ELSE NthOf(starts, r + 1) - 1
    IN  SubSeq(s, from, to)
IsWhiteSpaceToken(t) == t[1] \in WhiteSpace

\* `out` is `line` with each whitespace run that follows '.', '!' or '?'
\* replaced by the sentence-break marker, and nothing else changed
BreaksEncoded(line, out) ==
    /\ Cardinality(TokenStarts(out)) = Cardinality(TokenStarts(line))
    /\ \A r \in 1..Cardinality(TokenStarts(line)) :
          LET t == Token(line, r)
          IN  Token(out, r) =
                  IF /\ IsWhiteSpaceToken(t)
                     /\ r > 1
                     /\ Token(line, r - 1)[1] \in Punctuation
                  THEN SENTENCE_BREAK
                  ELSE t

\* C10: every non-blank line gives exactly one segment, in input order: the
\* trimmed line with each whitespace run after '.', '!' or '?' replaced by the
\* sentence-break marker, then one sentence-break marker, no flag set; and the
\* non-whitespace characters of the output are those of the input, in order.
C10_LineSegments ==
    TxtDone =>
        /\ Cardinality(TextSegmentAt) = Cardinality(NonBlankLines)
        /\ \A r \in 1..Cardinality(NonBlankLines) :
              LET seg == segments[NthOf(TextSegmentAt, r)]
                  line == Trim(TxtLines[NthOf(NonBlankLines, r)])
                  n == Len(seg.text) - SentenceBreakLen
              IN  /\ n >= 1
                  /\ SubSeq(seg.text, n + 1, Len(seg.text)) = SENTENCE_BREAK
                  /\ BreaksEncoded(line, SubSeq(seg.text, 1, n))
                  /\ NoStyleFlags(seg)
        /\ NonWhiteSpace(ConcatText(segments)) = NonWhiteSpace(file.text)

\* a line with a run of two whitespace characters after a full stop, parsed
C10_Witness ==
    /\ TxtDone
    /\ \E k \in NonBlankLines :
          LET line == Trim(TxtLines[k])
          IN  \E r \in 2..Cardinality(TokenStarts(line)) :
                  /\ Len(Token(line, r)) >= 2
                  /\ IsWhiteSpaceToken(Token(line, r))
                  /\ Token(line, r - 1)[1] \in Punctuation
    /\ Len(segments) >= 1

----------------------------------------------------------------------------
(* The walked tree and where each node's segments stand in the output *)

IsFb2 == file.name = NameFb2
WalkedDoc == IF IsFb2 THEN file.doc ELSE file.zip.entries[PathA].doc
WalkDone == pc = "done" /\ file.name \in {NameFb2, NameEpub}
WalkedNodes == 1..Len(WalkedDoc.node)
TagOf(m) == ToLowerCase(WalkedDoc.node[m].tagName)
IsElement(m) == WalkedDoc.node[m].nodeType = 1
IsText(m) == WalkedDoc.node[m].nodeType = 3 /\ Trim(WalkedDoc.node[m].nodeValue) # <<>>

\* the tag classes as the specification gives them
HeadingClass(tagName) ==
    IF IsFb2
    THEN tagName \in {TagTitle, TagSubtitle} \/ (tagName # <<>> /\ Head(tagName) = "h")
    ELSE tagName \in {<<"h", d>> : d \in {"1", "2", "3", "4", "5", "6"}}
BoldClass(tagName) == tagName \in {TagStrong, TagB}
ItalicClass(tagName) ==
    IF IsFb2 THEN tagName \in {TagEmphasis, TagEm, TagI} ELSE tagName \in {TagEm, TagI}
UnderlineClass(tagName) == tagName \in {TagU}

IsHeadingNode(m) == IsElement(m) /\ HeadingClass(TagOf(m))
IsBreakTagNode(m) == IsElement(m) /\ IsFb2 /\ TagOf(m) = TagEmptyLine /\ ~IsHeadingNode(m)
IsParagraphNode(m) == IsElement(m) /\ TagOf(m) = TagP /\ ~IsHeadingNode(m)

\* the segments a node gives before its children and after them
Opens(m) == IF IsText(m) \/ IsHeadingNode(m) \/ IsBreakTagNode(m) THEN 1 ELSE 0
Closes(m) == IF IsHeadingNode(m) THEN 2 ELSE IF IsParagraphNode(m) THEN 1 ELSE 0

\* the sequence <<F(1), ..., F(n)>>
Tabulate(n, F(_)) == SubSeq([m \in 1..n |-> F(m)], 1, n)

\* for every node m of the walked tree: above, its ancestors from the body
\* down (m left out); visited, whether the walker reaches it (it is the body or
\* below it, under no explicit break tag); first, the index of its first
\* segment; count, the number of segments of its subtree
Layout ==
    LET body == getBody(WalkedDoc)
        n == Len(WalkedDoc.node)
        anc == Tabulate(n, LAMBDA m : AncestorsOrSelf(WalkedDoc.parent, m))
        above == Tabulate(n, LAMBDA m : {a \in anc[m] : a # m /\ body \in anc[a]})
        visited == Tabulate(n, LAMBDA m :
                       /\ body \in anc[m]
                       /\ \A a \in above[m] : ~IsBreakTagNode(a))
        opens == Tabulate(n, LAMBDA m : IF visited[m] THEN Opens(m) ELSE 0)
        closes == Tabulate(n, LAMBDA m : IF visited[m] THEN Closes(m) ELSE 0)
    IN  Tabulate(n, LAMBDA m :
            [above |-> above[m],
             visited |-> visited[m],
             first |-> 1 + Cardinality({<<x, j>> \in (1..(m - 1)) \X (1..3) :
                                          j <= opens[x] + (IF x \in anc[m] THEN 0 ELSE closes[x])}),
             count |-> Cardinality({<<x, j>> \in WalkedNodes \X (1..3) :
                                      m \in anc[x] /\ j <= opens[x] + closes[x]})])

Span(L, m) == SubSeq(segments, L[m].first, L[m].first + L[m].count - 1)

AllSegments(L) ==
    Len(segments) = IF getBody(WalkedDoc) = 0 THEN 0 ELSE L[getBody(WalkedDoc)].count

IsHeadingGap(seg) == IsBreak(seg) /\ seg.text = HEADING_GAP
IsParagraphBreak(seg) == IsBreak(seg) /\ seg.text = PARAGRAPH_BREAK

HeadingFrame(S) ==
    /\ Len(S) >= 3
    /\ IsHeadingGap(S[1])
    /\ IsHeadingGap(S[Len(S) - 1])
    /\ IsParagraphBreak(S[Len(S)])

\* C2, as stated: the segments of a heading are a heading gap, the content
\* segments, each with isHeading and bold, a heading gap and a paragraph break.
C2_AsStated ==
    WalkDone =>
        LET L == Layout
        IN  /\ AllSegments(L)
            /\ \A h \in WalkedNodes :
                  L[h].visited /\ IsHeadingNode(h) =>
                      LET S == Span(L, h)
                      IN  /\ HeadingFrame(S)
                          /\ \A j \in 2..(Len(S) - 2) :
                                FlagSet(S[j], "isHeading") /\ FlagSet(S[j], "bold")

\* C2, amended: the segments of a heading are a heading gap, the content
\* segments, a heading gap and a paragraph break; every content segment that
\* is not a break segment has isHeading and bold, and the break segments that
\* elements inside the heading give carry no flag.
C2_HeadingLayout ==
    WalkDone =>
        LET L == Layout
        IN  /\ AllSegments(L)
            /\ \A h \in WalkedNodes :
                  L[h].visited /\ IsHeadingNode(h) =>
                      LET S == Span(L, h)
                      IN  /\ HeadingFrame(S)
                          /\ \A j \in 2..(Len(S) - 2) :
                                IF IsBreak(S[j])
                                THEN NoStyleFlags(S[j])
                                ELSE FlagSet(S[j], "isHeading") /\ FlagSet(S[j], "bold")

\* a heading that holds a paragraph that holds a text, walked
C2_Witness ==
    /\ WalkDone
    /\ \E h, q, t \in WalkedNodes :
          /\ Layout[t].visited /\ IsHeadingNode(h) /\ IsParagraphNode(q) /\ IsText(t)
          /\ WalkedDoc.parent[q] = h
          /\ WalkedDoc.parent[t] = q
          /\ Layout[h].count = 5

SetsBold(a) == IsElement(a) /\ (BoldClass(TagOf(a)) \/ HeadingClass(TagOf(a)))
SetsItalic(a) == IsElement(a) /\ ItalicClass(TagOf(a))
SetsUnderline(a) == IsElement(a) /\ UnderlineClass(TagOf(a))

\* C3, as stated: every segment given for a node below a bold-class or a
\* heading-class tag has bold, and likewise italic and underline.
C3_AsStated ==
    WalkDone =>
        LET L == Layout
        IN  /\ AllSegments(L)
            /\ \A m \in WalkedNodes :
                  L[m].visited =>
                      LET S == Span(L, m)
                      IN  \A j \in 1..Len(S) :
                            /\ (\E a \in L[m].above : SetsBold(a)) => FlagSet(S[j], "bold")
                            /\ (\E a \in L[m].above : SetsItalic(a))
                                  => FlagSet(S[j], "italic")
                            /\ (\E a \in L[m].above : SetsUnderline(a))
                                  => FlagSet(S[j], "underline")

\* C3, amended: the segment of a text node has bold exactly when the node is
\* below a bold-class or a heading-class tag, italic exactly when it is below
\* an italic-class tag, underline exactly when it is below an underline-class
\* tag, however deep; the break segments of the subtree carry no flag.
C3_InheritedFlags ==
    WalkDone =>
        LET L == Layout
        IN  /\ AllSegments(L)
            /\ \A m \in WalkedNodes :
                  L[m].visited /\ IsText(m) =>
                      LET seg == segments[L[m].first]
                      IN  /\ ~IsBreak(seg)
                          /\ FlagSet(seg, "bold") <=> \E a \in L[m].above : SetsBold(a)
                          /\ FlagSet(seg, "italic") <=> \E a \in L[m].above : SetsItalic(a)
                          /\ FlagSet(seg, "underline")
                                <=> \E a \in L[m].above : SetsUnderline(a)
            /\ \A j \in 1..Len(segments) :
                  IsBreak(segments[j]) => NoStyleFlags(segments[j])

\* a text two levels below a b tag, walked
C3_Witness ==
    /\ WalkDone
    /\ \E b, q, t \in WalkedNodes :
          /\ Layout[t].visited /\ IsText(t)
          /\ IsElement(b) /\ TagOf(b) = TagB
          /\ WalkedDoc.parent[q] = b
          /\ WalkedDoc.parent[t] = q
          /\ FlagSet(segments[Layout[t].first], "bold")

ScenarioDone == pc = "done" /\ IsFb2 /\ file.doc = ScenarioDoc

IntroSegment(seg) ==
    /\ seg.text = TextIntro \o <<SP>>
    /\ FlagSet(seg, "bold")
    /\ FlagSet(seg, "isHeading")
    /\ ~IsBreak(seg)

EndsInPunctuation(m) ==
    LET text == Trim(WalkedDoc.node[m].nodeValue)
    IN  text[Len(text)] \in Punctuation

\* C8, as stated: the scenario gives heading gap, "Intro ", heading gap,
\* paragraph break, "Text here." with the sentence-break marker and a space,
\* paragraph break; a text node that ends in '.', '!' or '?' gets the marker
\* before its trailing space.
C8_AsStated ==
    /\ ScenarioDone =>
          /\ Len(segments) = 6
          /\ IsHeadingGap(segments[1])
          /\ IntroSegment(segments[2])
          /\ IsHeadingGap(segments[3])
          /\ IsParagraphBreak(segments[4])
          /\ segments[5].text = TextHere \o SENTENCE_BREAK \o <<SP>>
          /\ IsParagraphBreak(segments[6])
    /\ WalkDone =>
          LET L == Layout
          IN  /\ AllSegments(L)
              /\ \A m \in WalkedNodes :
                    L[m].visited /\ IsText(m) /\ EndsInPunctuation(m) =>
                        LET text == segments[L[m].first].text
                            n == Len(text)
                        IN  /\ n > SentenceBreakLen + 1
                            /\ SubSeq(text, n - SentenceBreakLen, n)
                                  = SENTENCE_BREAK \o <<SP>>

\* C8, amended: the scenario gives heading gap, "Intro ", heading gap,
\* paragraph break, "Text here. " (the text and one space, no marker),
\* paragraph break; a text node that ends in '.', '!' or '?' gets its trailing
\* space right after the punctuation, with no marker.
C8_Scenario ==
    /\ ScenarioDone =>
          /\ Len(segments) = 6
          /\ IsHeadingGap(segments[1])
          /\ IntroSegment(segments[2])
          /\ IsHeadingGap(segments[3])
          /\ IsParagraphBreak(segments[4])
          /\ segments[5].text = TextHere \o <<SP>>
          /\ NoStyleFlags(segments[5]) /\ ~IsBreak(segments[5])
          /\ IsParagraphBreak(segments[6])
    /\ WalkDone =>
          LET L == Layout
          IN  /\ AllSegments(L)
              /\ \A m \in WalkedNodes :
                    L[m].visited /\ IsText(m) /\ EndsInPunctuation(m) =>
                        LET text == segments[L[m].first].text
                            n == Len(text)
                        IN  /\ n >= 2
                            /\ text[n - 1] \in Punctuation
                            /\ text[n] = SP

\* the scenario, walked
C8_Witness == ScenarioDone /\ Len(segments) = 6

----------------------------------------------------------------------------
(* Format detection, the archive and the break segments *)

\* the extension as the specification gives it: what follows the last '.', lower-cased;
\* a name without a '.' has none
HasExtension(name) == \E k \in 1..Len(name) : name[k] = Dot
ExtensionOf(name) ==
    LET last == CHOOSE k \in 1..Len(name) :
                    name[k] = Dot /\ \A m \in (k + 1)..Len(name) : name[m] # Dot
    IN  ToLowerCase(SubSeq(name, last + 1, Len(name)))
Recognized(name) == HasExtension(name) /\ ExtensionOf(name) \in {ExtTxt, ExtFb2, ExtEpub}

\* C4: a file name whose extension is not txt, fb2 or epub, or that has no '.',
\* makes parseBook fail with the unrecognized-format error before any parser
\* is invoked and before any content is read.
C4_UnrecognizedFails ==
    ~Recognized(file.name) /\ pc # "parseBook" =>
        /\ pc = "failed"
        /\ error = ErrUnknownFormat
        /\ reads = <<>>

\* the paths looked up in the archive, in order
ArchivePaths ==
    LET lookups == SelectSeq(reads, LAMBDA r : r.op = "zip.file")
    IN  [k \in 1..Len(lookups) |-> lookups[k].path]

InArchive(path) == path \in DOMAIN file.zip.entries

NoPackagePath ==
    LET rootfile == file.zip.entries[ContainerPath].rootfile
    IN  rootfile = <<>> \/ rootfile[1] = <<>>

FailedWith(message) == pc = "failed" /\ error = message /\ segments = <<>>

\* C5: once the container descriptor has been looked up and is missing, the
\* parse has failed with the invalid-archive error, holds no segment and has
\* looked up no other entry; the same for a missing package path, and for a
\* missing package document, after which no further entry is looked up.
C5_MissingIsFatal ==
    /\ Len(ArchivePaths) >= 1 =>
          /\ ArchivePaths[1] = ContainerPath
          /\ ~InArchive(ContainerPath) =>
                FailedWith(ErrMissingContainer) /\ Len(ArchivePaths) = 1
          /\ InArchive(ContainerPath) /\ ~file.zip.entries[ContainerPath].empty
                /\ NoPackagePath =>
                FailedWith(ErrMissingOpfPath) /\ Len(ArchivePaths) = 1
    /\ Len(ArchivePaths) >= 2 =>
          /\ ArchivePaths[2] = file.zip.entries[ContainerPath].rootfile[1]
          /\ ~InArchive(ArchivePaths[2]) =>
                FailedWith(ErrMissingOpfFile) /\ Len(ArchivePaths) = 2

\* an archive without a container descriptor that holds a package document
\* and a content document, after the failed lookup
C5_Witness ==
    /\ FailedWith(ErrMissingContainer)
    /\ ~InArchive(ContainerPath)
    /\ InArchive(OpfFile) /\ InArchive(PathA)
    /\ ArchivePaths = <<ContainerPath>>

\* the spine entry resolves: its idref is in the manifest map and the content
\* file can be read
Resolves(idref) ==
    /\ idref # ""
    /\ idref \in DOMAIN manifestMap
    /\ InArchive(manifestMap[idref])
    /\ ~file.zip.entries[manifestMap[idref]].empty

\* the segments of the content document of a spine entry, walked on its own
DocumentSegments(idref) ==
    LET doc == file.zip.entries[manifestMap[idref]].doc
    IN  IF getBody(doc) = 0 THEN <<>> ELSE processEpubNode(doc, getBody(doc), <<>>)

RECURSIVE SpineSegments(_)
SpineSegments(idrefs) ==
    IF idrefs = <<>> THEN <<>>
    ELSE DocumentSegments(Head(idrefs)) \o SpineSegments(Tail(idrefs))

\* C6: a spine entry that does not resolve is skipped without an error: no
\* parse fails once the spine loop has begun, and the segments are those of
\* the spine with the skipped entries left out, in spine order.
C6_SkipsUnresolved ==
    /\ pc = "failed" => i = 0
    /\ pc \in {"spine", "done"} /\ file.name = NameEpub =>
          /\ error = ""
          /\ pc = "done" => i = Len(spineItems) + 1
          /\ segments = SpineSegments(SelectSeq(SubSeq(spineItems, 1, i - 1), Resolves))

\* a spine of three entries, the second with an idref the manifest does not
\* have, the first and the third with segments, parsed
C6_Witness ==
    /\ pc = "done"
    /\ Len(spineItems) = 3
    /\ Resolves(spineItems[1]) /\ DocumentSegments(spineItems[1]) # <<>>
    /\ spineItems[2] # "" /\ spineItems[2] \notin DOMAIN manifestMap
    /\ Resolves(spineItems[3]) /\ DocumentSegments(spineItems[3]) # <<>>
    /\ DocumentSegments(spineItems[3]) # DocumentSegments(spineItems[1])

OnlyNbsp(text) == \A k \in 1..Len(text) : text[k] = NBSP

\* C7: a segment with isParagraphBreak carries no style flag and its text is
\* NBSP repeated 25 or 30 times; no other segment has a text of NBSP alone of
\* one of these lengths.
C7_BreakSegments ==
    \A j \in 1..Len(segments) :
        LET seg == segments[j]
        IN  IF IsBreak(seg)
            THEN /\ NoStyleFlags(seg)
                 /\ OnlyNbsp(seg.text)
                 /\ Len(seg.text) \in {ParagraphBreakLen, HeadingGapLen}
            ELSE ~(OnlyNbsp(seg.text)
                     /\ Len(seg.text) \in {ParagraphBreakLen, HeadingGapLen})

\* a parse that gave a heading gap, a paragraph break and a styled text
C7_Witness ==
    /\ pc = "done"
    /\ \E j \in 1..Len(segments) : IsHeadingGap(segments[j])
    /\ \E j \in 1..Len(segments) : IsParagraphBreak(segments[j])
    /\ \E j \in 1..Len(segments) : ~IsBreak(segments[j]) /\ FlagSet(segments[j], "bold")

----------------------------------------------------------------------------
(* The application's file-load handler *)

\* C9: when parseBook fails while a book is loaded, the load status takes the
\* error message and the loaded segments, the position, the playing flag and
\* the book name keep the values they had.
C9_AsStated ==
    [][pc = "failed" /\ pc' = "idle" /\ bookName # Null =>
          /\ loadStatus' = ErrorStatus(error)
          /\ appSegments' = appSegments
          /\ position' = position
          /\ isPlaying' = isPlaying
          /\ bookName' = bookName]_vars

----------------------------------------------------------------------------
(* The rendered text *)

\* the offsets of segment k in the concatenation of the texts
StartOffset(segs, k) == Len(ConcatText(SubSeq(segs, 1, k - 1)))
EndOffset(segs, k) == Len(ConcatText(SubSeq(segs, 1, k)))
FullyShown(segs, p) == {k \in 1..Len(segs) : EndOffset(segs, k) <= p}
Straddling(segs, p) ==
    {k \in 1..Len(segs) : StartOffset(segs, k) < p /\ p < EndOffset(segs, k)}

\* C11: for a position p from 0 to the total length, renderText gives every
\* segment that ends at or before p in full, then the prefix of length
\* p - start of the one segment that straddles p, and nothing more; the
\* rendered texts together are the first p characters of the segments' texts,
\* break segments counted like any other.
C11_RenderedPrefix ==
    elements # Unrendered =>
        LET full == FullyShown(appSegments, position)
            part == Straddling(appSegments, position)
        IN  /\ Cardinality(part) <= 1
            /\ Len(elements) = Cardinality(full) + Cardinality(part)
            /\ \A k \in full : elements[k].text = appSegments[k].text
            /\ \A k \in part :
                  /\ k = Len(elements)
                  /\ elements[k].text =
                         SubSeq(appSegments[k].text, 1,
                                position - StartOffset(appSegments, k))
            /\ ConcatText(elements) = SubSeq(ConcatText(appSegments), 1, position)

\* rendered: a position inside a break segment that has a segment before it
\* and one after it
C11_Witness ==
    /\ elements # Unrendered
    /\ \E k \in Straddling(appSegments, position) :
          /\ IsBreak(appSegments[k])
          /\ 1 < k /\ k < Len(appSegments)
          /\ appSegments[k - 1].text # <<>>
          /\ appSegments[k + 1].text # <<>>
          /\ Len(elements) = k

----------------------------------------------------------------------------
(* The order of the walk *)

IsPrefix(s, t) == Len(s) <= Len(t) /\ SubSeq(t, 1, Len(s)) = s

\* the walker called on node m with the context its ancestors give
WalkFrom(L, m, segs) ==
    LET isHeading == \E a \in L[m].above : IsHeadingNode(a)
        inheritBold == \E a \in L[m].above : SetsBold(a)
        inheritItalic == \E a \in L[m].above : SetsItalic(a)
        inheritUnderline == \E a \in L[m].above : SetsUnderline(a)
    IN  IF IsFb2
        THEN processFb2NodeWithContext(WalkedDoc, m, segs, isHeading, inheritBold,
                                       inheritItalic, inheritUnderline)
        ELSE processEpubNodeWithContext(WalkedDoc, m, segs, isHeading, inheritBold,
                                        inheritItalic, inheritUnderline)

\* the segments are the pre-order flattening of the walked tree
PreOrder ==
    WalkDone =>
        LET L == Layout
            last(m) == L[m].first + L[m].count - 1
            shown == {m \in WalkedNodes : L[m].visited}
            texts == {m \in shown : IsText(m)}
        IN  /\ AllSegments(L)
            \* a text node's segment stands where document order puts it
            /\ \A m \in texts :
                  /\ ~IsBreak(segments[L[m].first])
                  /\ segments[L[m].first].text
                        = addSentenceBreaks(Trim(WalkedDoc.node[m].nodeValue)) \o <<SP>>
            /\ \A m, x \in texts : m < x => L[m].first < L[x].first
            /\ Cardinality({j \in 1..Len(segments) : ~IsBreak(segments[j])})
                  = Cardinality(texts)
            \* the breaks an element opens and closes with stand around the
            \* segments of its descendants and before those of what follows it
            /\ \A m \in shown :
                  /\ IsHeadingNode(m) =>
                        /\ IsHeadingGap(segments[L[m].first])
                        /\ IsHeadingGap(segments[last(m) - 1])
                        /\ IsParagraphBreak(segments[last(m)])
                  /\ IsParagraphNode(m) => IsParagraphBreak(segments[last(m)])
                  /\ IsBreakTagNode(m) =>
                        IsParagraphBreak(segments[L[m].first]) /\ L[m].count = 1
                  /\ \A x \in shown :
                        /\ m \in L[x].above /\ L[x].count > 0 =>
                              /\ L[m].first + Opens(m) <= L[x].first
                              /\ last(x) <= last(m) - Closes(m)
                        /\ x > m /\ m \notin L[x].above /\ L[x].count > 0 =>
                              last(m) < L[x].first
            \* walking a node leaves what was emitted before it as it was
            /\ \A m \in shown :
                  WalkFrom(L, m, SubSeq(segments, 1, L[m].first - 1))
                      = SubSeq(segments, 1, last(m))

\* C12: the walker visits children in document order and the segments are the
\* pre-order, left-to-right flattening of the walked subtree: text segments in
\* the document order of their non-empty text nodes, an element's closing
\* breaks after the segments of its descendants and before those of its
\* following siblings; a step never reorders, changes or removes a segment
\* emitted before it.
C12_PreOrderFlattening ==
    /\ []PreOrder
    /\ [][IsPrefix(segments, segments')]_vars

\* walked: a paragraph with a text in it, followed by a sibling text with
\* another content
C12_Witness ==
    /\ WalkDone
    /\ \E m, x, y \in WalkedNodes :
          /\ Layout[m].visited
          /\ IsParagraphNode(m)
          /\ IsText(x) /\ WalkedDoc.parent[x] = m
          /\ IsText(y) /\ WalkedDoc.parent[y] = WalkedDoc.parent[m] /\ y > m
          /\ WalkedDoc.node[x].nodeValue # WalkedDoc.node[y].nodeValue
          /\ Len(segments) = 3

----------------------------------------------------------------------------
(* The position *)

\* C13: after any file loads, play/pause toggles, rewinds, forwards, wheel
\* events and animation frames, 0 <= position <= the total length of the
\* segments the application holds.
C13_PositionInRange ==
    /\ 0 <= position
    /\ position <= Len(ConcatText(appSegments))

====
